---- MODULE Spec2Model ----
(***************************************************************************)
(* A model of the pair utility (src/pair.go): the derivation of a paired   *)
(* git author (user.name, user.email) from a list of usernames, and the    *)
(* switch to a branch prefixed with the paired usernames.                  *)
(*                                                                         *)
(* A Go string is modelled as a sequence of one-character strings, so that *)
(* splitting, joining, trimming and sorting are computed as the code       *)
(* computes them.                                                          *)
(***************************************************************************)
EXTENDS Integers, Sequences, FiniteSets, TLC

(***************************************************************************)
(* Bounds of the model.                                                    *)
(***************************************************************************)
\* longest list of usernames given on the command line
MaxUsers == 2
\* longest email template / address handed to SplitEmail on its own
MaxEmailLen == 3
\* number of invocations of the tool in one behaviour
MaxRuns == 2

(***************************************************************************)
(* Strings.                                                                *)
(***************************************************************************)
\* the byte value of a character, which Go's string comparison orders by
ByteOf(c) ==
    CASE c = "+" -> 43
      [] c = "@" -> 64
      [] c = "a" -> 97
      [] c = "b" -> 98
      [] c = "d" -> 100
      [] c = "g" -> 103

\* all strings over the characters cs of length lo..hi
StringsOver(cs, lo, hi) == UNION {[1..n -> cs] : n \in lo..hi}

\* s < t for Go strings: bytewise lexicographic order
StringLess(s, t) ==
    LET m == IF Len(s) < Len(t) THEN Len(s) ELSE Len(t)
        diff == {i \in 1..m : s[i] # t[i]}
    IN  IF diff = {} THEN Len(s) < Len(t)
        ELSE LET i == CHOOSE j \in diff : \A k \in diff : j <= k
             IN  ByteOf(s[i]) < ByteOf(t[i])

\* strings.HasPrefix(s, prefix)
HasPrefix(s, prefix) ==
    /\ Len(prefix) <= Len(s)
    /\ SubSeq(s, 1, Len(prefix)) = prefix

\* strings.TrimPrefix(s, prefix)
TrimPrefix(s, prefix) ==
    IF HasPrefix(s, prefix) THEN SubSeq(s, Len(prefix) + 1, Len(s)) ELSE s

\* strings.TrimRight(s, cutset): s without its trailing characters in cutset
RECURSIVE TrimRight(_, _)
TrimRight(s, cutset) ==
    IF s # <<>> /\ s[Len(s)] \in cutset
    THEN TrimRight(SubSeq(s, 1, Len(s) - 1), cutset)
    ELSE s

\* strings.Join(elems, sep)
RECURSIVE Join(_, _)
Join(elems, sep) ==
    IF elems = <<>> THEN <<>>
    ELSE IF Len(elems) = 1 THEN elems[1]
    ELSE elems[1] \o sep \o Join(Tail(elems), sep)

\* strings.Split(s, sep) for a one-character sep: the pieces between the
\* occurrences of sep, one more piece than there are occurrences
RECURSIVE Split(_, _)
Split(s, sep) ==
    LET hits == {i \in 1..Len(s) : s[i] = sep}
    IN  IF hits = {} THEN <<s>>
        ELSE LET i == CHOOSE j \in hits : \A k \in hits : j <= k
             IN  <<SubSeq(s, 1, i - 1)>> \o Split(SubSeq(s, i + 1, Len(s)), sep)

\* sort.Strings left out: the order given is kept
KeepOrder(a) == a

\* sort.Strings(a): the elements of a in increasing order
RECURSIVE InsertSorted(_, _)
InsertSorted(x, sorted) ==
    IF sorted = <<>> THEN <<x>>
    ELSE IF StringLess(sorted[1], x)
         THEN <<sorted[1]>> \o InsertSorted(x, Tail(sorted))
         ELSE <<x>> \o sorted

RECURSIVE SortStrings(_)
SortStrings(a) ==
    IF a = <<>> THEN <<>>
    ELSE InsertSorted(a[1], SortStrings(Tail(a)))

(***************************************************************************)
(* Errors: nil is the empty tuple, an error is <<message, detail>>.        *)
(***************************************************************************)
Nil == <<>>

ErrInvalidEmail(email) == <<"invalid email address", email>>

ErrNoSuchUsername(username) == <<"no such username", username>>

(***************************************************************************)
(* The pure functions of src/pair.go.                                      *)
(***************************************************************************)
\* SplitEmail with a slip: an address with more than one "@" is accepted
SplitEmailAtLeastOneAt(email) ==
    LET parts == Split(email, "@")
    IN  IF Len(parts) < 2
        THEN [user |-> <<>>, host |-> <<>>, err |-> ErrInvalidEmail(email)]
        ELSE [user |-> parts[1], host |-> parts[2], err |-> Nil]

\* SplitEmail: (username, host, err)
SplitEmail(email) ==
    LET parts == Split(email, "@")
    IN  IF Len(parts) # 2
        THEN [user |-> <<>>, host |-> <<>>, err |-> ErrInvalidEmail(email)]
        ELSE [user |-> parts[1], host |-> parts[2], err |-> Nil]

\* EmailAddressForUsernames with a slip: the usernames are sorted again
EmailAddressForUsernamesSorting(emailTemplate, usernames) ==
    LET split == SplitEmail(emailTemplate)
    IN  IF split.err # Nil THEN [val |-> <<>>, err |-> split.err]
        ELSE IF Len(usernames) = 0 THEN [val |-> emailTemplate, err |-> Nil]
        ELSE IF Len(usernames) = 1
             THEN [val |-> usernames[1] \o <<"@">> \o split.host, err |-> Nil]
        ELSE [val |-> split.user \o <<"+">>
                          \o Join(SortStrings(usernames), <<"+">>)
                          \o <<"@">> \o split.host,
              err |-> Nil]

\* EmailAddressForUsernames: (email, err)
EmailAddressForUsernames(emailTemplate, usernames) ==
    LET split == SplitEmail(emailTemplate)
    IN  IF split.err # Nil THEN [val |-> <<>>, err |-> split.err]
        ELSE IF Len(usernames) = 0 THEN [val |-> emailTemplate, err |-> Nil]
        ELSE IF Len(usernames) = 1
             THEN [val |-> usernames[1] \o <<"@">> \o split.host, err |-> Nil]
        ELSE [val |-> split.user \o <<"+">> \o Join(usernames, <<"+">>)
                          \o <<"@">> \o split.host,
              err |-> Nil]

\* the separator of the joined full names
AndSep == <<" ", "a", "n", "d", " ">>

\* the loop of NamesForUsernames over usernames[i..], names collected so far
RECURSIVE NamesLoop(_, _, _, _)
NamesLoop(usernames, authorMap, i, names) ==
    IF i > Len(usernames)
    THEN [val |-> Join(names, AndSep), err |-> Nil]
    ELSE IF usernames[i] \notin DOMAIN authorMap
         THEN [val |-> <<>>, err |-> ErrNoSuchUsername(usernames[i])]
         ELSE NamesLoop(usernames, authorMap, i + 1,
                        Append(names, authorMap[usernames[i]]))

\* NamesForUsernames with a slip: an unknown username is skipped
NamesForUsernamesSkipping(usernames, authorMap) ==
    LET known == SelectSeq(usernames, LAMBDA u : u \in DOMAIN authorMap)
    IN  [val |-> Join([i \in 1..Len(known) |-> authorMap[known[i]]], AndSep),
         err |-> Nil]

\* NamesForUsernames: (names, err); authorMap is a function from the
\* usernames it knows to their full names
NamesForUsernames(usernames, authorMap) ==
    IF Len(usernames) = 0 THEN [val |-> <<>>, err |-> Nil]
    ELSE NamesLoop(usernames, authorMap, 1, <<>>)

(***************************************************************************)
(* The inputs the model draws from.                                        *)
(***************************************************************************)
\* usernames: a plain one, one holding an "@", one that begins with "g+"
Usernames == {<<"a">>, <<"b", "@">>, <<"g", "+", "b">>}

\* the username lists of a command line, in any order, repeats included
UserLists == StringsOver(Usernames, 0, MaxUsers)

\* addresses and templates handed to the pure functions
Emails == StringsOver({"g", "@", "d"}, 0, MaxEmailLen)

FullNames == {<<"A">>, <<"B">>}

\* every content of a pairs file over Usernames and FullNames
AuthorMaps == UNION {[D -> FullNames] : D \in SUBSET Usernames}

\* $PAIR_EMAIL: unset (empty), well formed, without "@", with two "@"
PairEmails == {<<>>, <<"g", "@", "d">>, <<"g", "d">>, <<"g", "@", "d", "@">>}

\* what GetDefaultEmailTemplate returns when the reverse DNS lookup succeeds
DefaultTemplate == <<"g", "@", "d">>

\* the pairs file that knows every username
AllAuthors ==
    (<<"a">> :> <<"A">>) @@ (<<"b", "@">> :> <<"B">>)
        @@ (<<"g", "+", "b">> :> <<"A", "B">>)

\* the pairs files of the program runs: complete, partial, empty
PairsFiles ==
    {[u \in D |-> AllAuthors[u]] : D \in {Usernames, {<<"a">>}, {}}}

\* the usernames given together with -b, which the code never reads
IgnoredLists == {l \in UserLists : Len(l) <= 1}

\* the -b flag: "" when not given
Topics == {<<"T">>, <<"U">>}

Master == <<"m", "a", "s", "t", "e", "r">>

(***************************************************************************)
(* The state of the program and of what it acts on.                        *)
(***************************************************************************)
VARIABLES
    authorMap,      \* the content of the pairs file ($PAIR_FILE)
    gitConfig,      \* the git config file: property -> <<>> (not set) or <<value>>
    configBefore,   \* history: the git config file when this invocation started
    branchesBefore, \* history: the branches when this invocation started
    branches,       \* the branches of the repository
    head,           \* the branch that is checked out
    pc,             \* where the running invocation is
    runs,           \* invocations started so far
    args,           \* the command line: [branch |-> -b, usernames |-> flag.Args()]
    emailTemplate,  \* main's (emailTemplate, err) of lines 70-78 in this environment
    sw,             \* the locals of SwitchToPairBranch
    log,            \* the subprocesses and file reads of this invocation, in order
    stderr,         \* the error this invocation printed, Nil if none
    stdout,         \* the line this invocation printed, empty if none
    unit            \* a direct call of one of the pure functions

progVars == <<authorMap, emailTemplate, gitConfig, configBefore, branches,
              branchesBefore, head, pc, runs, args, sw, log, stderr, stdout>>

vars == <<authorMap, emailTemplate, gitConfig, configBefore, branches,
          branchesBefore, head, pc, runs, args, sw, log, stderr, stdout, unit>>

Properties == {"user.name", "user.email"}

\* the error of a subprocess that exits with a non-zero status
ErrExit == <<"exit status", <<>>>>

\* one entry of the log
Entry(op, key, arg) == [op |-> op, key |-> key, arg |-> arg]

NoArgs == [branch |-> <<>>, usernames |-> <<>>]

\* revFailed is history: git rev-parse failed for another reason than a name
\* that does not resolve, which the code cannot tell from revErr
NoSwitch == [email |-> <<>>, templateUsername |-> <<>>, usernames |-> <<>>,
             fullBranch |-> <<>>, revErr |-> FALSE, revFailed |-> FALSE,
             cmdErr |-> FALSE]

NoUnit == [fn |-> "none", email |-> <<>>, usernames |-> <<>>,
           authorMap |-> <<>>, done |-> FALSE,
           ret |-> [a |-> <<>>, b |-> <<>>, err |-> Nil]]

\* the subprocess or file read that fails in an invocation, if any: the code
\* stops at the first failure, so one failure per invocation is every case
SetFailures == {{}, {"read pairs"}, {"set user.name"}, {"set user.email"},
                {"get user.name"}, {"get user.email"}}

PrintFailures == {{}, {"get user.name"}, {"get user.email"}}

(***************************************************************************)
(* The git config file.                                                    *)
(***************************************************************************)
\* GitConfig with a slip: a property that is not set reads as the empty value
GitConfigUnsetIsEmpty(configFile, property, failed) ==
    IF failed THEN [val |-> <<>>, err |-> ErrExit]
    ELSE IF configFile[property] = <<>> THEN [val |-> <<>>, err |-> Nil]
    ELSE [val |-> TrimRight(configFile[property][1] \o <<"\n">>, {"\r", "\n"}),
          err |-> Nil]

\* GitConfig: (value, err); git config prints the value and a newline, and
\* exits with status 1 when the property is not set
GitConfig(configFile, property, failed) ==
    IF failed \/ configFile[property] = <<>>
    THEN [val |-> <<>>, err |-> ErrExit]
    ELSE [val |-> TrimRight(configFile[property][1] \o <<"\n">>, {"\r", "\n"}),
          err |-> Nil]

\* SetGitConfig: the config file afterwards, and err
SetGitConfig(configFile, property, value, failed) ==
    IF failed
    THEN [cfg |-> configFile, err |-> ErrExit]
    ELSE [cfg |-> [configFile EXCEPT ![property] = <<value>>], err |-> Nil]

(***************************************************************************)
(* PrintCurrentPairedUsers and SetAndPrintNewPairedUsers, as functions of  *)
(* the files they read and of the subprocesses that fail.                  *)
(***************************************************************************)
PrintCurrentPairedUsers(configFile, fails) ==
    LET name == GitConfig(configFile, "user.name", "get user.name" \in fails)
        email == GitConfig(configFile, "user.email", "get user.email" \in fails)
        getName == Entry("config get", "user.name", <<>>)
        getEmail == Entry("config get", "user.email", <<>>)
    IN  IF name.err # Nil
        THEN [ok |-> FALSE, log |-> <<getName>>, stdout |-> <<>>,
              stderr |-> <<"unable to get current git author name", <<>>>>]
        ELSE IF email.err # Nil
        THEN [ok |-> FALSE, log |-> <<getName, getEmail>>, stdout |-> <<>>,
              stderr |-> <<"unable to get current git author email", <<>>>>]
        ELSE [ok |-> TRUE, log |-> <<getName, getEmail>>, stderr |-> Nil,
              stdout |-> name.val \o <<" ", "<">> \o email.val \o <<">", "\n">>]

\* SetAndPrintNewPairedUsers with a slip: user.email is set before user.name
SetAndPrintEmailFirst(pairsFile, configFile, template, usernames, fails) ==
    LET readPairs == Entry("read pairs", "", <<>>)
        sorted == SortStrings(usernames)
        email == EmailAddressForUsernames(template, sorted)
        name == IF email.err = Nil
                THEN NamesForUsernames(sorted, pairsFile)
                ELSE [val |-> <<>>, err |-> email.err]
        setEmail == SetGitConfig(configFile, "user.email", email.val,
                                 "set user.email" \in fails)
        setName == SetGitConfig(setEmail.cfg, "user.name", name.val,
                                "set user.name" \in fails)
        logEmail == <<readPairs, Entry("config set", "user.email", email.val)>>
        logName == Append(logEmail, Entry("config set", "user.name", name.val))
        print == PrintCurrentPairedUsers(setName.cfg, fails)
    IN  IF "read pairs" \in fails
        THEN [ok |-> FALSE, cfg |-> configFile, log |-> <<readPairs>>,
              stdout |-> <<>>,
              stderr |-> <<"unable to read authors from file", <<>>>>]
        ELSE IF name.err # Nil
        THEN [ok |-> FALSE, cfg |-> configFile, log |-> <<readPairs>>,
              stdout |-> <<>>, stderr |-> name.err]
        ELSE IF setEmail.err # Nil
        THEN [ok |-> FALSE, cfg |-> setEmail.cfg, log |-> logEmail,
              stdout |-> <<>>,
              stderr |-> <<"unable to set current git author name", <<>>>>]
        ELSE IF setName.err # Nil
        THEN [ok |-> FALSE, cfg |-> setName.cfg, log |-> logName,
              stdout |-> <<>>,
              stderr |-> <<"unable to set current git author name", <<>>>>]
        ELSE [ok |-> print.ok, cfg |-> setName.cfg,
              log |-> logName \o print.log,
              stdout |-> print.stdout, stderr |-> print.stderr]

SetAndPrintNewPairedUsers(pairsFile, configFile, template, usernames, fails) ==
    LET readPairs == Entry("read pairs", "", <<>>)
        sorted == SortStrings(usernames)
        email == EmailAddressForUsernames(template, sorted)
        name == IF email.err = Nil
                THEN NamesForUsernames(sorted, pairsFile)
                ELSE [val |-> <<>>, err |-> email.err]
        setName == SetGitConfig(configFile, "user.name", name.val,
                                "set user.name" \in fails)
        setEmail == SetGitConfig(setName.cfg, "user.email", email.val,
                                 "set user.email" \in fails)
        logName == <<readPairs, Entry("config set", "user.name", name.val)>>
        logEmail == Append(logName, Entry("config set", "user.email", email.val))
        print == PrintCurrentPairedUsers(setEmail.cfg, fails)
    IN  IF "read pairs" \in fails
        THEN [ok |-> FALSE, cfg |-> configFile, log |-> <<readPairs>>,
              stdout |-> <<>>,
              stderr |-> <<"unable to read authors from file", <<>>>>]
        ELSE IF name.err # Nil
        THEN [ok |-> FALSE, cfg |-> configFile, log |-> <<readPairs>>,
              stdout |-> <<>>, stderr |-> name.err]
        ELSE IF setName.err # Nil
        THEN [ok |-> FALSE, cfg |-> setName.cfg, log |-> logName,
              stdout |-> <<>>,
              stderr |-> <<"unable to set current git author name", <<>>>>]
        ELSE IF setEmail.err # Nil
        THEN [ok |-> FALSE, cfg |-> setEmail.cfg, log |-> logEmail,
              stdout |-> <<>>,
              stderr |-> <<"unable to set current git author name", <<>>>>]
        ELSE [ok |-> print.ok, cfg |-> setEmail.cfg,
              log |-> logEmail \o print.log,
              stdout |-> print.stdout, stderr |-> print.stderr]

(***************************************************************************)
(* main.                                                                   *)
(***************************************************************************)
\* main's emailTemplate: $PAIR_EMAIL, or GetDefaultEmailTemplate when empty
ResolveTemplate(env, dnsOk) ==
    IF env # <<>> THEN [val |-> env, err |-> Nil]
    ELSE IF dnsOk THEN [val |-> DefaultTemplate, err |-> Nil]
    ELSE [val |-> <<>>, err |-> <<"expected a hostname", <<>>>>]

\* a process starts with a command line
Start(branch, usernames) ==
    /\ pc = "Idle"
    /\ runs < MaxRuns
    /\ runs' = runs + 1
    /\ args' = [branch |-> branch, usernames |-> usernames]

\* main, lines 70-78: no template can be determined
MainNoTemplate ==
    \E branch \in Topics \cup {<<>>}, usernames \in UserLists :
        /\ Start(branch, usernames)
        /\ emailTemplate.err # Nil
        /\ pc' = "Failed"
        /\ stderr' = <<"please set $PAIR_EMAIL", <<>>>>
        /\ UNCHANGED <<authorMap, branchesBefore, configBefore, gitConfig,
                       branches, head, emailTemplate, sw, log, stdout, unit>>

\* main, lines 88-94 with a slip: the length of usernames is not looked at,
\* and SetAndPrintNewPairedUsers is called with no usernames
MainPrintSetting ==
    \E fails \in SetFailures :
        LET r == SetAndPrintNewPairedUsers(authorMap, gitConfig,
                                           emailTemplate.val, <<>>, fails)
        IN  /\ Start(<<>>, <<>>)
            /\ emailTemplate.err = Nil
            /\ gitConfig' = r.cfg
            /\ pc' = IF r.ok THEN "Done" ELSE "Failed"
            /\ log' = r.log
            /\ stderr' = r.stderr
            /\ stdout' = r.stdout
            /\ UNCHANGED <<authorMap, branchesBefore, configBefore,
                           emailTemplate, branches, head, sw, unit>>

\* main, lines 88-94: no usernames, report the current author
MainPrint ==
    \E fails \in PrintFailures :
        LET r == PrintCurrentPairedUsers(gitConfig, fails)
        IN  /\ Start(<<>>, <<>>)
            /\ emailTemplate.err = Nil
            /\ pc' = IF r.ok THEN "Done" ELSE "Failed"
            /\ log' = r.log
            /\ stderr' = r.stderr
            /\ stdout' = r.stdout
            /\ UNCHANGED <<authorMap, branchesBefore, configBefore,
                           emailTemplate, gitConfig, branches, head, sw, unit>>

\* main, lines 95-105: set the author from the usernames and report it
MainSet ==
    \E usernames \in UserLists \ {<<>>}, fails \in SetFailures :
        LET r == SetAndPrintNewPairedUsers(authorMap, gitConfig,
                                           emailTemplate.val, usernames, fails)
        IN  /\ Start(<<>>, usernames)
            /\ emailTemplate.err = Nil
            /\ gitConfig' = r.cfg
            /\ pc' = IF r.ok THEN "Done" ELSE "Failed"
            /\ log' = r.log
            /\ stderr' = r.stderr
            /\ stdout' = r.stdout
            /\ UNCHANGED <<authorMap, branchesBefore, configBefore,
                           emailTemplate, branches, head, sw, unit>>

(***************************************************************************)
(* SwitchToPairBranch, one action per step.                                *)
(***************************************************************************)
\* the error of lines 177-178
ErrNoEmail ==
    <<"unable to get current git author email from config file", <<>>>>

\* main, lines 80-81, and SwitchToPairBranch, lines 176-180: read user.email
SwitchGetEmail ==
    \E branch \in Topics, usernames \in IgnoredLists, failed \in BOOLEAN :
        LET email == GitConfig(gitConfig, "user.email", failed)
        IN  /\ Start(branch, usernames)
            /\ emailTemplate.err = Nil
            /\ log' = <<Entry("config get", "user.email", <<>>)>>
            /\ IF email.err # Nil
               THEN /\ pc' = "Failed"
                    /\ stderr' = ErrNoEmail
                    /\ sw' = sw
               ELSE /\ pc' = "IdentityRead"
                    /\ stderr' = stderr
                    /\ sw' = [sw EXCEPT !.email = email.val]
            /\ UNCHANGED <<authorMap, branchesBefore, configBefore,
                           emailTemplate, gitConfig, branches, head, stdout,
                           unit>>

\* lines 182-195 with a slip: the "+" after the template's username is not
\* counted into the prefix
PairUsernamesNoPlus(email, template) ==
    LET templateSplit == SplitEmail(template)
        emailSplit == SplitEmail(email)
    IN  IF templateSplit.err # Nil
        THEN [val |-> <<>>, templateUsername |-> <<>>,
              err |-> <<"unable to parse template email address", template>>]
        ELSE IF emailSplit.err # Nil
        THEN [val |-> <<>>, templateUsername |-> templateSplit.user,
              err |-> <<"unable to parse email address", email>>]
        ELSE [val |-> TrimPrefix(emailSplit.user, templateSplit.user),
              templateUsername |-> templateSplit.user,
              err |-> Nil]

\* lines 182-195: the usernames the email stands for
PairUsernames(email, template) ==
    LET templateSplit == SplitEmail(template)
        emailSplit == SplitEmail(email)
    IN  IF templateSplit.err # Nil
        THEN [val |-> <<>>, templateUsername |-> <<>>,
              err |-> <<"unable to parse template email address", template>>]
        ELSE IF emailSplit.err # Nil
        THEN [val |-> <<>>, templateUsername |-> templateSplit.user,
              err |-> <<"unable to parse email address", email>>]
        ELSE [val |-> TrimPrefix(emailSplit.user,
                                 templateSplit.user \o <<"+">>),
              templateUsername |-> templateSplit.user,
              err |-> Nil]

\* line 197 with a slip: the branch comes first
FullBranchReversed(usernames, branch) == branch \o <<"/">> \o usernames

\* line 197: the branch to switch to
FullBranch(usernames, branch) == usernames \o <<"/">> \o branch

\* lines 182-197: split the template and the email, name the branch
SwitchSplit ==
    LET r == PairUsernames(sw.email, emailTemplate.val)
    IN  /\ pc = "IdentityRead"
        /\ IF r.err # Nil
           THEN /\ pc' = "Failed"
                /\ stderr' = r.err
                /\ sw' = [sw EXCEPT !.templateUsername = r.templateUsername]
           ELSE /\ pc' = "AddressDecoded"
                /\ stderr' = stderr
                /\ sw' = [sw EXCEPT !.templateUsername = r.templateUsername,
                                    !.usernames = r.val,
                                    !.fullBranch = FullBranch(r.val, args.branch)]
        /\ UNCHANGED <<authorMap, branchesBefore, configBefore, gitConfig,
                       branches, head, runs, args, emailTemplate, log, stdout,
                       unit>>

\* git rev-parse fullBranch fails when the name does not resolve, and when
\* the subprocess fails for any other reason
RevParseErr(fullBranch, repo, failed) == failed \/ fullBranch \notin repo

\* lines 199-201: git rev-parse fullBranch
SwitchRevParse ==
    \E failed \in BOOLEAN :
        /\ pc = "AddressDecoded"
        /\ pc' = "BranchResolved"
        /\ sw' = [sw EXCEPT !.revErr = RevParseErr(sw.fullBranch, branches,
                                                    failed),
                            !.revFailed = failed]
        /\ log' = Append(log, Entry("rev-parse", "", sw.fullBranch))
        /\ UNCHANGED <<authorMap, branchesBefore, configBefore, gitConfig,
                       branches, head, runs, args, emailTemplate, stderr,
                       stdout, unit>>

\* lines 203-211 with a slip: the two cases are exchanged
CheckoutCommandExchanged(revErr, fullBranch) ==
    IF revErr
    THEN Entry("checkout", "", fullBranch)
    ELSE Entry("checkout -b", "master", fullBranch)

\* lines 203-211: the arguments of git checkout
CheckoutCommand(revErr, fullBranch) ==
    IF revErr
    THEN Entry("checkout -b", "master", fullBranch)
    ELSE Entry("checkout", "", fullBranch)

\* lines 203-216: git checkout fullBranch, or git checkout -b fullBranch master
SwitchCheckout ==
    \E failed \in BOOLEAN :
        LET cmd == CheckoutCommand(sw.revErr, sw.fullBranch)
            create == cmd.op = "checkout -b"
            err == \/ failed
                   \/ create /\ (cmd.arg \in branches \/ Master \notin branches)
                   \/ ~create /\ cmd.arg \notin branches
        IN  /\ pc = "BranchResolved"
            /\ pc' = IF create THEN "CreateAndCheckout" ELSE "Checkout"
            /\ log' = Append(log, cmd)
            /\ sw' = [sw EXCEPT !.cmdErr = err]
            /\ branches' = IF err THEN branches ELSE branches \cup {cmd.arg}
            /\ head' = IF err THEN head ELSE cmd.arg
            /\ UNCHANGED <<authorMap, branchesBefore, configBefore, gitConfig,
                           runs, args, emailTemplate, stderr, stdout, unit>>

\* lines 218-223 with a slip: the error of git checkout is not looked at
SwitchReturnIgnoringErr ==
    /\ pc \in {"Checkout", "CreateAndCheckout"}
    /\ pc' = "Done"
    /\ UNCHANGED <<authorMap, emailTemplate, gitConfig, configBefore, branches,
                   branchesBefore, head, runs, args, sw, log, stderr, stdout,
                   unit>>

\* lines 218-223 with a slip in main, lines 81-85: after a switch that
\* succeeded the process does not exit, and main goes on with the usernames
SwitchReturnFallingThrough ==
    LET r == IF args.usernames = <<>>
             THEN PrintCurrentPairedUsers(gitConfig, {}) @@ [cfg |-> gitConfig]
             ELSE SetAndPrintNewPairedUsers(authorMap, gitConfig,
                                            emailTemplate.val,
                                            args.usernames, {})
    IN  /\ pc \in {"Checkout", "CreateAndCheckout"}
        /\ IF sw.cmdErr
           THEN /\ pc' = "Failed"
                /\ stderr' = <<"unable to check out git branch", sw.fullBranch>>
                /\ UNCHANGED <<gitConfig, log, stdout>>
           ELSE /\ pc' = IF r.ok THEN "Done" ELSE "Failed"
                /\ stderr' = r.stderr
                /\ gitConfig' = r.cfg
                /\ log' = log \o r.log
                /\ stdout' = r.stdout
        /\ UNCHANGED <<authorMap, branchesBefore, configBefore, branches,
                       head, runs, args, emailTemplate, sw, unit>>

\* lines 218-223, and main, lines 81-85
SwitchReturn ==
    /\ pc \in {"Checkout", "CreateAndCheckout"}
    /\ IF sw.cmdErr
       THEN /\ pc' = "Failed"
            /\ stderr' = <<"unable to check out git branch", sw.fullBranch>>
       ELSE /\ pc' = "Done"
            /\ stderr' = stderr
    /\ UNCHANGED <<authorMap, branchesBefore, configBefore, gitConfig,
                   branches, head, runs, args, emailTemplate, sw, log, stdout,
                   unit>>

\* the process has exited (status 0 from "Done", 1 from "Failed"); what it
\* held in memory and printed is gone, the files and the repository stay
Exit ==
    /\ pc \in {"Done", "Failed"}
    /\ runs < MaxRuns
    /\ pc' = "Idle"
    /\ args' = NoArgs
    /\ sw' = NoSwitch
    /\ log' = <<>>
    /\ stderr' = Nil
    /\ stdout' = <<>>
    /\ configBefore' = gitConfig
    /\ branchesBefore' = branches
    /\ UNCHANGED <<authorMap, emailTemplate, gitConfig, branches, head, runs,
                   unit>>

\* the git config file before the first invocation: nothing set
InitConfig == [p \in Properties |-> <<>>]

\* the branches of the repository before the first invocation: master, and
\* possibly a pair branch left by earlier work
InitBranches == {{Master}, {Master, <<"a", "/", "T">>}}

Init ==
    /\ authorMap \in PairsFiles
    /\ gitConfig = InitConfig
    /\ configBefore = InitConfig
    /\ branches \in InitBranches
    /\ branchesBefore = branches
    /\ head = Master
    /\ pc = "Idle"
    /\ runs = 0
    /\ args = NoArgs
    /\ emailTemplate \in {ResolveTemplate(env, dnsOk) :
                            env \in PairEmails, dnsOk \in BOOLEAN}
    /\ sw = NoSwitch
    /\ log = <<>>
    /\ stderr = Nil
    /\ stdout = <<>>
    /\ unit = NoUnit

Next ==
    \/ MainNoTemplate
    \/ MainPrint
    \/ MainSet
    \/ SwitchGetEmail
    \/ SwitchSplit
    \/ SwitchRevParse
    \/ SwitchCheckout
    \/ SwitchReturn
    \/ Exit

Spec == Init /\ [][Next]_vars

(***************************************************************************)
(* The pure functions called on their own, as the tests of pair_test.go    *)
(* call them: the inputs are drawn at the start, an action applies the     *)
(* function.                                                               *)
(***************************************************************************)
UnitInputs ==
    {[NoUnit EXCEPT !.fn = "SplitEmail", !.email = e] : e \in Emails}
    \cup {[NoUnit EXCEPT !.fn = "EmailAddressForUsernames", !.email = e,
                         !.usernames = l] : e \in Emails, l \in UserLists}
    \cup {[NoUnit EXCEPT !.fn = "NamesForUsernames", !.usernames = l,
                         !.authorMap = m] : l \in UserLists, m \in AuthorMaps}

UnitInit ==
    /\ unit \in UnitInputs
    /\ authorMap = AllAuthors
    /\ emailTemplate = ResolveTemplate(DefaultTemplate, TRUE)
    /\ gitConfig = InitConfig
    /\ configBefore = InitConfig
    /\ branches = {Master}
    /\ branchesBefore = {Master}
    /\ head = Master
    /\ pc = "Idle"
    /\ runs = 0
    /\ args = NoArgs
    /\ sw = NoSwitch
    /\ log = <<>>
    /\ stderr = Nil
    /\ stdout = <<>>

CallSplitEmail ==
    LET r == SplitEmail(unit.email)
    IN  /\ unit.fn = "SplitEmail"
        /\ ~unit.done
        /\ unit' = [unit EXCEPT !.done = TRUE,
                                !.ret = [a |-> r.user, b |-> r.host, err |-> r.err]]
        /\ UNCHANGED progVars

CallEmailAddressForUsernames ==
    LET r == EmailAddressForUsernames(unit.email, unit.usernames)
    IN  /\ unit.fn = "EmailAddressForUsernames"
        /\ ~unit.done
        /\ unit' = [unit EXCEPT !.done = TRUE,
                                !.ret = [a |-> r.val, b |-> <<>>, err |-> r.err]]
        /\ UNCHANGED progVars

CallNamesForUsernames ==
    LET r == NamesForUsernames(unit.usernames, unit.authorMap)
    IN  /\ unit.fn = "NamesForUsernames"
        /\ ~unit.done
        /\ unit' = [unit EXCEPT !.done = TRUE,
                                !.ret = [a |-> r.val, b |-> <<>>, err |-> r.err]]
        /\ UNCHANGED progVars

UnitNext ==
    \/ CallSplitEmail
    \/ CallEmailAddressForUsernames
    \/ CallNamesForUsernames

UnitSpec == UnitInit /\ [][UnitNext]_vars

(***************************************************************************)
(* What the claims say, stated without the operators above where the       *)
(* claim describes the result itself.                                      *)
(***************************************************************************)
\* the places of "@" in s
AtSigns(s) == {i \in 1..Len(s) : s[i] = "@"}

\* an address with exactly one "@"
WellFormed(s) == Cardinality(AtSigns(s)) = 1

\* the text before and after the one "@" of a well-formed address
LocalPart(s) == SubSeq(s, 1, (CHOOSE i \in AtSigns(s) : TRUE) - 1)

Domain(s) == SubSeq(s, (CHOOSE i \in AtSigns(s) : TRUE) + 1, Len(s))

IsMalformedAddress(err) == err # Nil /\ err[1] = "invalid email address"

IsUnknownAlias(err, alias) == err = <<"no such username", alias>>

\* the usernames l[1], "+", l[2], "+", ..., in the order of l
RECURSIVE PlusJoined(_)
PlusJoined(l) ==
    IF Len(l) = 0 THEN <<>>
    ELSE IF Len(l) = 1 THEN l[1]
    ELSE PlusJoined(SubSeq(l, 1, Len(l) - 1)) \o <<"+">> \o l[Len(l)]

\* the full names of l[1], " and ", l[2], ..., in the order of l
RECURSIVE AndJoined(_, _)
AndJoined(l, m) ==
    IF Len(l) = 0 THEN <<>>
    ELSE IF Len(l) = 1 THEN m[l[1]]
    ELSE AndJoined(SubSeq(l, 1, Len(l) - 1), m)
            \o <<" ", "a", "n", "d", " ">> \o m[l[Len(l)]]

\* what encode gives for a well-formed template: the three cases of the spec
Encoded(t, l) ==
    IF Len(l) = 0 THEN t
    ELSE IF Len(l) = 1 THEN l[1] \o <<"@">> \o Domain(t)
    ELSE LocalPart(t) \o <<"+">> \o PlusJoined(l) \o <<"@">> \o Domain(t)

EncodeCalled == unit.fn = "EmailAddressForUsernames" /\ unit.done

\* C4, as the spec states it: encode returns the template unchanged for every
\* template when there are no aliases, alias@domain for one alias, and
\* localPart+alias1+alias2+...@domain in the caller's order for two or more.
C4_EncodeAnyTemplate ==
    EncodeCalled =>
        /\ Len(unit.usernames) = 0 =>
              unit.ret.err = Nil /\ unit.ret.a = unit.email
        /\ Len(unit.usernames) > 0 /\ WellFormed(unit.email) =>
              unit.ret.err = Nil /\ unit.ret.a = Encoded(unit.email, unit.usernames)

\* C4, amended: for a well-formed template encode returns the template
\* unchanged for no aliases, alias@domain for one alias, and
\* localPart+alias1+alias2+...@domain with the aliases in the caller's order
\* for two or more; for a template that is not well formed it fails with
\* MalformedAddress and returns the empty string, also for no aliases.
C4_Encode ==
    EncodeCalled =>
        IF WellFormed(unit.email)
        THEN unit.ret.err = Nil /\ unit.ret.a = Encoded(unit.email, unit.usernames)
        ELSE IsMalformedAddress(unit.ret.err) /\ unit.ret.a = <<>>

\* two aliases given out of order are encoded in the order given
C4_Witness ==
    /\ EncodeCalled
    /\ unit.email = <<"g", "@", "d">>
    /\ unit.usernames = <<<<"g", "+", "b">>, <<"a">>>>
    /\ unit.ret.a = <<"g", "+", "g", "+", "b", "+", "a", "@", "d">>

\* C5: split succeeds if and only if the address holds exactly one "@", and
\* then returns the text before it and the text after it; every other address
\* fails with MalformedAddress and empty local-part and domain.
C5_SplitEmail ==
    (unit.fn = "SplitEmail" /\ unit.done) =>
        IF WellFormed(unit.email)
        THEN /\ unit.ret.err = Nil
             /\ unit.ret.a = LocalPart(unit.email)
             /\ unit.ret.b = Domain(unit.email)
        ELSE /\ IsMalformedAddress(unit.ret.err)
             /\ unit.ret.a = <<>>
             /\ unit.ret.b = <<>>

\* an address with two "@" has been refused
C5_Witness ==
    /\ unit.fn = "SplitEmail"
    /\ unit.done
    /\ unit.email = <<"g", "@", "@">>
    /\ IsMalformedAddress(unit.ret.err)

\* the places of the aliases of l that the directory m does not know
Absent(l, m) == {i \in 1..Len(l) : l[i] \notin DOMAIN m}

\* C6: resolveNames returns the empty string and no error for no aliases;
\* the full names joined by " and " in the order of the list when every alias
\* is known; and fails with UnknownAlias of the first unknown alias of the
\* list, returning no name, otherwise.
C6_NamesForUsernames ==
    (unit.fn = "NamesForUsernames" /\ unit.done) =>
        LET l == unit.usernames
            m == unit.authorMap
        IN  IF Absent(l, m) = {}
            THEN unit.ret.err = Nil /\ unit.ret.a = AndJoined(l, m)
            ELSE /\ \E i \in Absent(l, m) :
                        /\ \A j \in Absent(l, m) : i <= j
                        /\ IsUnknownAlias(unit.ret.err, l[i])
                 /\ unit.ret.a = <<>>

\* the second alias of two is unknown: no name, the error names it
C6_Witness ==
    /\ unit.fn = "NamesForUsernames"
    /\ unit.done
    /\ unit.usernames = <<<<"a">>, <<"g", "+", "b">>>>
    /\ DOMAIN unit.authorMap = {<<"a">>}
    /\ IsUnknownAlias(unit.ret.err, <<"g", "+", "b">>)

(***************************************************************************)
(* Claims about the invocations that set the author.                       *)
(***************************************************************************)
\* lexicographic order of strings by their bytes
RECURSIVE LexLess(_, _)
LexLess(s, t) ==
    IF t = <<>> THEN FALSE
    ELSE IF s = <<>> THEN TRUE
    ELSE IF s[1] = t[1] THEN LexLess(Tail(s), Tail(t))
    ELSE ByteOf(s[1]) < ByteOf(t[1])

Distinct(l) == \A i, j \in 1..Len(l) : i # j => l[i] # l[j]

\* the rearrangements of the list l
Arrangements(l) ==
    {[i \in 1..Len(l) |-> l[f[i]]] :
        f \in {g \in [1..Len(l) -> 1..Len(l)] :
                  \A i, j \in 1..Len(l) : i # j => g[i] # g[j]}}

\* the rearrangement of l in lexicographic order
Sorted(l) ==
    CHOOSE p \in Arrangements(l) :
        \A i \in 1..(Len(p) - 1) : ~LexLess(p[i + 1], p[i])

\* this invocation ran SetAndPrintNewPairedUsers and has ended
SetEnded ==
    /\ pc \in {"Done", "Failed"}
    /\ args.branch = <<>>
    /\ args.usernames # <<>>
    /\ emailTemplate.err = Nil

\* the pairs file was read into the directory
DirectoryLoaded ==
    stderr = Nil \/ stderr[1] # "unable to read authors from file"

NoConfigSet == \A i \in 1..Len(log) : log[i].op # "config set"

\* C1: for a non-empty list of distinct aliases that the directory all knows
\* and a well-formed template, a successful sync leaves user.name = the full
\* names joined by " and " in lexicographic alias order and user.email =
\* encode(template, sorted aliases); the stored pair depends on the list only
\* through its sorted rearrangement, so permutations store the same pair.
C1_SyncStoresSortedIdentity ==
    (/\ SetEnded
     /\ pc = "Done"
     /\ Distinct(args.usernames)
     /\ Absent(args.usernames, authorMap) = {}
     /\ WellFormed(emailTemplate.val))
    => LET sorted == Sorted(args.usernames)
       IN  /\ gitConfig["user.name"] = <<AndJoined(sorted, authorMap)>>
           /\ gitConfig["user.email"] = <<Encoded(emailTemplate.val, sorted)>>

\* two aliases typed in descending order have been stored in ascending order
C1_Witness ==
    /\ SetEnded
    /\ pc = "Done"
    /\ args.usernames = <<<<"g", "+", "b">>, <<"a">>>>
    /\ gitConfig["user.name"] = <<<<"A", " ", "a", "n", "d", " ", "A", "B">>>>
    /\ gitConfig["user.email"]
          = <<<<"g", "+", "a", "+", "g", "+", "b", "@", "d">>>>

\* sync was given an alias the loaded directory does not know
AbsentCase ==
    /\ SetEnded
    /\ DirectoryLoaded
    /\ Absent(args.usernames, authorMap) # {}

\* C2, as the spec states it: if an alias is absent from the directory, sync
\* fails with UnknownAlias naming an absent alias and performs no set: the
\* stored name and email are what they were before the invocation.
C2_UnknownAliasAlways ==
    AbsentCase =>
        /\ pc = "Failed"
        /\ \E i \in Absent(args.usernames, authorMap) :
              IsUnknownAlias(stderr, args.usernames[i])
        /\ NoConfigSet
        /\ gitConfig = configBefore

\* C2, amended: if an alias is absent from the directory, sync fails and
\* performs no set, so that the stored name and email are what they were
\* before; the error is UnknownAlias naming the lexicographically least absent
\* alias when the template is well formed, and MalformedAddress of the
\* template when it is not (the email is encoded before the names are
\* looked up).
C2_AbsentAliasNoWrite ==
    AbsentCase =>
        /\ pc = "Failed"
        /\ NoConfigSet
        /\ gitConfig = configBefore
        /\ IF WellFormed(emailTemplate.val)
           THEN \E i \in Absent(args.usernames, authorMap) :
                   /\ \A j \in Absent(args.usernames, authorMap) :
                         ~LexLess(args.usernames[j], args.usernames[i])
                   /\ IsUnknownAlias(stderr, args.usernames[i])
           ELSE stderr = <<"invalid email address", emailTemplate.val>>

\* two absent aliases, typed in descending order: the error names the lesser
C2_Witness ==
    /\ AbsentCase
    /\ authorMap = <<>>
    /\ args.usernames = <<<<"g", "+", "b">>, <<"a">>>>
    /\ WellFormed(emailTemplate.val)
    /\ IsUnknownAlias(stderr, <<"a">>)
    /\ gitConfig = configBefore

(***************************************************************************)
(* Claims about the invocations that switch the branch.                    *)
(***************************************************************************)
\* this invocation runs SwitchToPairBranch and has read user.email
EmailRead ==
    /\ args.branch # <<>>
    /\ emailTemplate.err = Nil
    /\ \/ pc \in {"IdentityRead", "AddressDecoded", "BranchResolved",
                  "Checkout", "CreateAndCheckout", "Done"}
       \/ pc = "Failed" /\ stderr # ErrNoEmail

\* lines 182-195 have been passed, with or without an error
DecodeTried == EmailRead /\ pc # "IdentityRead"

\* lines 182-195 have given the usernames of the email
Decoded ==
    /\ DecodeTried
    /\ stderr = Nil \/ stderr[1] = "unable to check out git branch"

StoredEmailIs(e) == gitConfig["user.email"] = <<e>>

HasNoAt(l) == \A i \in 1..Len(l) : AtSigns(l[i]) = {}

\* s begins with p
BeginsWith(s, p) == Len(p) <= Len(s) /\ \A i \in 1..Len(p) : s[i] = p[i]

\* C3, as the spec states it: for every alias set S and well-formed template
\* t, if the stored email is encode(t, sort(S)), the decode step of the branch
\* derivation recovers the aliases of S joined with "+" in sorted order.
C3_RoundTripAnyAliases ==
    (DecodeTried /\ WellFormed(emailTemplate.val)) =>
        \A l \in UserLists :
            (Distinct(l) /\ StoredEmailIs(Encoded(emailTemplate.val, Sorted(l))))
            => Decoded /\ sw.usernames = PlusJoined(Sorted(l))

\* C3, amended: for every non-empty set S of aliases that hold no "@", and
\* that is not a single alias beginning with localPart(t)+"+", and every
\* well-formed template t, if the stored email is encode(t, sort(S)), the
\* decode step recovers the aliases of S joined with "+" in sorted order (for
\* one alias, the alias).
C3_RoundTrip ==
    (DecodeTried /\ WellFormed(emailTemplate.val)) =>
        \A l \in UserLists \ {<<>>} :
            (/\ Distinct(l)
             /\ HasNoAt(l)
             /\ ~(Len(l) = 1 /\ BeginsWith(l[1], LocalPart(emailTemplate.val) \o <<"+">>))
             /\ StoredEmailIs(Encoded(emailTemplate.val, Sorted(l))))
            => Decoded /\ sw.usernames = PlusJoined(Sorted(l))

\* the email of two aliases has been decoded to the two aliases
C3_Witness ==
    /\ Decoded
    /\ emailTemplate.val = <<"g", "@", "d">>
    /\ StoredEmailIs(Encoded(emailTemplate.val, <<<<"a">>, <<"g", "+", "b">>>>))
    /\ sw.usernames = <<"a", "+", "g", "+", "b">>

\* the local-part of the email without one leading prefix, if it has it
WithoutPrefix(local, prefix) ==
    IF BeginsWith(local, prefix)
    THEN SubSeq(local, Len(prefix) + 1, Len(local))
    ELSE local

\* the branch that C7 names
TargetBranch(email, template, topic) ==
    WithoutPrefix(LocalPart(email), LocalPart(template) \o <<"+">>)
        \o <<"/">> \o topic

\* the git commands of this invocation
GitCommands == SelectSeq(log, LAMBDA e : e.op \in {"rev-parse", "checkout", "checkout -b"})

\* C7: for every well-formed stored email, well-formed template and topic,
\* SwitchToPairBranch targets the branch aliasPrefix/topic, where aliasPrefix
\* is the local-part of the stored email with one leading localPart(template)+"+"
\* removed if it is there, and unchanged otherwise.
C7_BranchName ==
    (/\ DecodeTried
     /\ gitConfig["user.email"] # <<>>
     /\ WellFormed(gitConfig["user.email"][1])
     /\ WellFormed(emailTemplate.val))
    => LET target == TargetBranch(gitConfig["user.email"][1],
                                  emailTemplate.val, args.branch)
       IN  /\ Decoded
           /\ sw.fullBranch = target
           /\ \A i \in 1..Len(GitCommands) : GitCommands[i].arg = target

\* of the stored g+g+b+g+b@d only the first g+ is removed
C7_Witness ==
    /\ pc = "Done"
    /\ args.branch = <<"T">>
    /\ emailTemplate.val = <<"g", "@", "d">>
    /\ StoredEmailIs(<<"g", "+", "g", "+", "b", "+", "g", "+", "b", "@", "d">>)
    /\ head = <<"g", "+", "b", "+", "g", "+", "b", "/", "T">>

\* the place of a state of the invocation in its order
Rank(p) ==
    CASE p = "Idle" -> 0
      [] p = "IdentityRead" -> 1
      [] p = "AddressDecoded" -> 2
      [] p = "BranchResolved" -> 3
      [] p \in {"Checkout", "CreateAndCheckout"} -> 4
      [] p \in {"Done", "Failed"} -> 5

\* a step of an invocation that calls SwitchToPairBranch
SwitchStep ==
    /\ args.branch # <<>> \/ args'.branch # <<>>
    /\ emailTemplate.err = Nil
    /\ pc' # pc

\* what C8 says of every step but that of the existence query
StepExceptQuery ==
    /\ pc = "Idle" =>
          /\ pc' \in {"IdentityRead", "Failed"}
          /\ gitConfig["user.email"] = <<>> => pc' = "Failed"
    /\ pc = "IdentityRead" =>
          pc' = IF WellFormed(emailTemplate.val) /\ WellFormed(sw.email)
                THEN "AddressDecoded" ELSE "Failed"
    /\ pc = "BranchResolved" => pc' \in {"Checkout", "CreateAndCheckout"}
    /\ pc \in {"Checkout", "CreateAndCheckout"} =>
          pc' = IF sw.cmdErr THEN "Failed" ELSE "Done"
    /\ pc \in {"Done", "Failed"} =>
          /\ pc' = "Idle"
          /\ log' = <<>>
          /\ gitConfig' = gitConfig
          /\ branches' = branches
          /\ head' = head
    /\ pc' # "Idle" => Rank(pc') > Rank(pc)
    /\ pc' = "Failed" => stderr' # Nil

\* C8, as the spec states it: an invocation moves forward through Idle,
\* IdentityRead, AddressDecoded, BranchResolved, one of Checkout and
\* CreateAndCheckout, Done; a failure at any step, that of a git command
\* included, moves directly to Failed, after which nothing more is issued.
C8_AnyFailureFails ==
    [][SwitchStep =>
          /\ StepExceptQuery
          /\ pc = "AddressDecoded" =>
                pc' = IF sw'.revFailed THEN "Failed" ELSE "BranchResolved"]_vars

\* C8, amended: an invocation moves forward through Idle, IdentityRead,
\* AddressDecoded, BranchResolved, one of Checkout and CreateAndCheckout, Done;
\* a failure to read the email, to parse the template or the email, or of the
\* checkout or create-and-checkout command moves directly to Failed, after
\* which nothing more is issued; a failing existence query moves to
\* BranchResolved like a succeeding one, and from there to CreateAndCheckout.
C8_StateMachine ==
    [][SwitchStep =>
          /\ StepExceptQuery
          /\ pc = "AddressDecoded" =>
                pc' = "BranchResolved" /\ (sw'.revFailed => sw'.revErr)
          /\ pc = "BranchResolved" =>
                pc' = IF sw.revErr THEN "CreateAndCheckout" ELSE "Checkout"]_vars

\* an invocation has gone all the way to Done through CreateAndCheckout
C8_Witness ==
    /\ pc = "Done"
    /\ args.branch # <<>>
    /\ sw.revErr
    /\ Len(log) = 3
    /\ head = sw.fullBranch

\* the checkout and create-and-checkout commands of this invocation
Checkouts == SelectSeq(log, LAMBDA e : e.op \in {"checkout", "checkout -b"})

\* the existence query of this invocation has been answered
Queried ==
    /\ args.branch # <<>>
    /\ \E i \in 1..Len(log) : log[i].op = "rev-parse"

\* an invocation is past the step that issues the checkout command
PastCheckout ==
    Queried /\ pc \in {"Checkout", "CreateAndCheckout", "Done", "Failed"}

\* C9: when git reports that fullBranch exists, a plain checkout of it is
\* issued and no branch is created; when not, a create-and-checkout of
\* fullBranch from master is issued; an invocation that reaches the existence
\* query issues exactly one of the two, and after the query.
C9_CheckoutOrCreate ==
    /\ ~PastCheckout => Checkouts = <<>>
    /\ PastCheckout =>
          /\ Len(log) = 3
          /\ log[2] = Entry("rev-parse", "", sw.fullBranch)
          /\ Checkouts = <<log[3]>>
          /\ log[3] = IF sw.revErr
                      THEN Entry("checkout -b", "master", sw.fullBranch)
                      ELSE Entry("checkout", "", sw.fullBranch)
          /\ ~sw.revErr => branches = branchesBefore
          /\ pc = "CreateAndCheckout" => log[3].op = "checkout -b"
          /\ pc = "Checkout" => log[3].op = "checkout"
          /\ (sw.revErr /\ ~sw.cmdErr) =>
                branches = branchesBefore \cup {sw.fullBranch}

\* the branch existed and has been checked out with a plain checkout
C9_Witness ==
    /\ pc = "Done"
    /\ Queried
    /\ ~sw.revErr
    /\ Checkouts = <<Entry("checkout", "", <<"a", "/", "T">>)>>
    /\ head = <<"a", "/", "T">>

\* C10, as the spec states it: a failure of the existence check, of the
\* checkout or of the create-and-checkout ends the invocation with an error,
\* and no git command is issued after the failing one.
C10_AnyGitFailureEnds ==
    (Queried /\ (sw.revFailed \/ sw.cmdErr)) =>
        /\ pc \in {"Done", "Failed"} => pc = "Failed"
        /\ sw.revFailed =>
              GitCommands = <<Entry("rev-parse", "", sw.fullBranch)>>
        /\ sw.cmdErr => Len(GitCommands) = 2

\* C10, amended: a failure of the checkout or of the create-and-checkout ends
\* the invocation with the error "unable to check out git branch", without a
\* retry and with no git command after the failing one; a failure of the
\* existence check is not an error of the invocation: it is taken as "no such
\* branch", and the create-and-checkout is the one command issued after it.
C10_CheckoutFailureEnds ==
    /\ (Queried /\ sw.cmdErr) =>
          /\ pc \in {"Checkout", "CreateAndCheckout", "Failed"}
          /\ Len(GitCommands) = 2
          /\ GitCommands[2].op \in {"checkout", "checkout -b"}
          /\ pc = "Failed" =>
                stderr = <<"unable to check out git branch", sw.fullBranch>>
          /\ branches = branchesBefore
    /\ (PastCheckout /\ (sw.revErr \/ sw.revFailed)) =>
          /\ Len(GitCommands) = 2
          /\ GitCommands[2].op = "checkout -b"
          /\ pc \in {"Done", "Failed"} => (pc = "Done" <=> ~sw.cmdErr)

\* the plain checkout of an existing branch failed, the invocation has ended
C10_Witness ==
    /\ pc = "Failed"
    /\ Queried
    /\ ~sw.revErr
    /\ sw.cmdErr
    /\ GitCommands[2].op = "checkout"

(***************************************************************************)
(* Claims about the writes of the git config file.                         *)
(***************************************************************************)
\* the places of the log where a property is set
ConfigSets == {i \in 1..Len(log) : log[i].op = "config set"}

\* this invocation of sync stopped at a SetGitConfig that failed
WriteFailed ==
    /\ SetEnded
    /\ pc = "Failed"
    /\ stderr = <<"unable to set current git author name", <<>>>>

\* the write that failed is the last one attempted
NameWriteFailed == WriteFailed /\ Cardinality(ConfigSets) = 1

EmailWriteFailed == WriteFailed /\ Cardinality(ConfigSets) = 2

\* C11: sync writes the name before the email, by two store calls; if the name
\* write succeeds and the email write fails, sync reports an error and stops,
\* the new name stays in the store and the stored email keeps its previous
\* value; if the name write fails, the email write is never attempted.
C11_NameThenEmail ==
    /\ \A i \in ConfigSets :
          /\ i \in {2, 3}
          /\ log[i].key = IF i = 2 THEN "user.name" ELSE "user.email"
          /\ i = 3 => 2 \in ConfigSets
    /\ WriteFailed => NameWriteFailed \/ EmailWriteFailed
    /\ NameWriteFailed =>
          /\ log[Len(log)].key = "user.name"
          /\ gitConfig = configBefore
    /\ EmailWriteFailed =>
          /\ Len(log) = 3
          /\ log[3].key = "user.email"
          /\ gitConfig["user.name"] = <<log[2].arg>>
          /\ gitConfig["user.email"] = configBefore["user.email"]
          /\ stdout = <<>>

\* the second sync wrote a new name, failed to write the email and left the
\* email of the first sync beside the new name
C11_Witness ==
    /\ EmailWriteFailed
    /\ configBefore["user.email"] = <<<<"a", "@", "d">>>>
    /\ gitConfig["user.email"] = <<<<"a", "@", "d">>>>
    /\ configBefore["user.name"] = <<<<"A">>>>
    /\ gitConfig["user.name"] = <<<<"A", "B">>>>

\* this invocation was given neither -b nor usernames, and has ended
PrintEnded ==
    /\ pc \in {"Done", "Failed"}
    /\ args.branch = <<>>
    /\ args.usernames = <<>>
    /\ emailTemplate.err = Nil

\* the line that reports the stored name and email
Report(configFile) ==
    configFile["user.name"][1] \o <<" ", "<">>
        \o configFile["user.email"][1] \o <<">", "\n">>

\* C12: an invocation with no aliases is report-only: it sets nothing, leaves
\* the stored name and email as they were, and only reads the store and
\* reports its current name and email; the store is written only when the
\* list of aliases is not empty.
C12_ReportOnly ==
    /\ PrintEnded =>
          /\ ConfigSets = {}
          /\ gitConfig = configBefore
          /\ \A i \in 1..Len(log) : log[i].op = "config get"
          /\ pc = "Done" =>
                /\ \A p \in Properties : gitConfig[p] # <<>>
                /\ stdout = Report(gitConfig)
          /\ pc = "Failed" => stdout = <<>>
    /\ (ConfigSets # {} \/ gitConfig # configBefore) => args.usernames # <<>>

\* after a sync of one alias, an invocation with no aliases has reported it
C12_Witness ==
    /\ PrintEnded
    /\ pc = "Done"
    /\ runs = 2
    /\ stdout = <<"A", " ", "<", "a", "@", "d", ">", "\n">>
    /\ gitConfig = configBefore

(***************************************************************************)
(* Claims about what an invocation with -b leaves alone.                   *)
(***************************************************************************)
\* C13: an invocation with -b never writes the git config file and never
\* reads the pairs file: it reads the stored email, issues git branch
\* commands and exits; the usernames given with -b are ignored (the branch
\* comes from the stored email alone), and the stored name and email are
\* what they were before, whether the switch succeeds or fails.
C13_BranchModeLeavesIdentity ==
    args.branch # <<>> =>
        /\ gitConfig = configBefore
        /\ \A i \in 1..Len(log) :
              IF i = 1
              THEN log[i] = Entry("config get", "user.email", <<>>)
              ELSE log[i].op \in {"rev-parse", "checkout", "checkout -b"}
        /\ stdout = <<>>
        /\ Decoded =>
              sw.fullBranch = TargetBranch(gitConfig["user.email"][1],
                                           emailTemplate.val, args.branch)
        /\ pc \in {"Done", "Failed"} =>
              (pc = "Done" <=> (PastCheckout /\ ~sw.cmdErr))

\* -b T was given together with the alias b@: the branch is that of the
\* stored a@d, and the stored name and email are those of before
C13_Witness ==
    /\ pc = "Done"
    /\ args.branch = <<"T">>
    /\ args.usernames = <<<<"b", "@">>>>
    /\ head = <<"a", "/", "T">>
    /\ gitConfig = configBefore
    /\ gitConfig["user.name"] = <<<<"A">>>>
    /\ StoredEmailIs(<<"a", "@", "d">>)

====
